---- MODULE Spec2Model ----
(***************************************************************************)
(* google-maps-mcp-server: the process start-up of src/index.js, its       *)
(* tools/call dispatcher with the four tool handlers, and the provider     *)
(* adapter of src/google-maps.js (calculateRoute, getTrafficInfo,          *)
(* getAlternativeTimes, formatRouteResponse, extractTollInfo).             *)
(*                                                                         *)
(* JavaScript values are modelled as follows.  An object is a record; a    *)
(* property that is absent (undefined) is a field that is not in the       *)
(* record's DOMAIN.  An array is a sequence.  Money is kept in cents and   *)
(* the numbers of the cost arithmetic are tagged records (Num, Null, NaN)  *)
(* so that JavaScript's coercions of null and undefined are computed and   *)
(* not assumed.  The text of a success envelope, JSON.stringify(result),   *)
(* is kept as the object it serialises: no property below reads the text.  *)
(* One tools/call is followed at a time: the handlers share no mutable     *)
(* state, so calls do not influence one another.                           *)
(***************************************************************************)
EXTENDS Integers, Sequences, FiniteSets, TLC

VARIABLES
    proc,           \* position of the module's top-level code (index.js 12-29, 410-418)
    configFile,     \* config/config.json as found on disk
    pc,             \* position of the tools/call handler being followed
    request,        \* request.params of that call: name and arguments
    queries,        \* the client.directions calls it has issued, in order of issue
    locals,         \* the handler's local variables that outlive an await
    handlerOutcome, \* how the selected handler completed: returned or threw
    result          \* what the tools/call handler handed back to the protocol front-end

vars == <<proc, configFile, pc, request, queries, locals, handlerOutcome, result>>

----------------------------------------------------------------------------
(* Bounds of the model *)

\* longest compareOptions array a caller passes to compare_routes
MaxOptions == 2

\* largest duration the provider reports for a leg
MaxDuration == 1

\* largest duration, and largest traffic-adjusted duration, of the legs the
\* traffic classifier is applied to
MaxLegDuration == 10
MaxLegTraffic == 16

----------------------------------------------------------------------------
(* Generic helpers *)

Has(obj, field) == field \in DOMAIN obj

\* Array.prototype.reduce without an initial value, over a non-empty array:
\* the accumulator starts as the first element and the rest are folded in order.
RECURSIVE ReduceFrom(_, _, _, _)
ReduceFrom(Op(_, _), acc, s, i) ==
    IF i > Len(s) THEN acc ELSE ReduceFrom(Op, Op(acc, s[i]), s, i + 1)

Reduce(Op(_, _), s) == ReduceFrom(Op, s[1], s, 2)

----------------------------------------------------------------------------
(* Configuration and start-up: index.js 12-29 and 410-418 *)

\* the placeholder the start-up check compares the key with
CODE_PLACEHOLDER == "YOUR_GOOGLE_MAPS_API_KEY_HERE"

\* the placeholder the README says config/config.json ships with
README_PLACEHOLDER == "GOOGLE_API_KEY"

\* a key the provider accepts
REAL_KEY == "AIza-real-key"

\* config.costs, in the model's units: cents per litre, tenths of a litre per
\* 100 km, cents per km (the defaults the README documents: 1.50, 8.0, 0.05)
fuelPricePerLiter == 150
vehicleFuelEfficiency == 80
tollEstimatePerKm == 5

costs ==
    [fuelPricePerLiter |-> fuelPricePerLiter,
     vehicleFuelEfficiency |-> vehicleFuelEfficiency,
     tollEstimatePerKm |-> tollEstimatePerKm]

\* the googleMaps sections a config file may hold: no apiKey, or one of the keys
GoogleMapsSections ==
    {[language |-> "en"]} \cup
    {[apiKey |-> k] : k \in {"", CODE_PLACEHOLDER, README_PLACEHOLDER, REAL_KEY}}

\* the config files the process may find: unreadable (missing, or not JSON),
\* readable without a googleMaps section, readable with one
ConfigFiles ==
    {[readable |-> FALSE]} \cup
    {[readable |-> TRUE, json |-> [costs |-> costs]]} \cup
    {[readable |-> TRUE, json |-> [googleMaps |-> g, costs |-> costs]] :
        g \in GoogleMapsSections}

\* let config = JSON.parse(readFileSync(configPath)), once it is loaded
config == configFile.json

\* index.js 23: the condition under which start-up refuses the key
apiKeyRefused(cfg) ==
    \/ ~Has(cfg.googleMaps, "apiKey")
    \/ cfg.googleMaps.apiKey = ""
    \/ cfg.googleMaps.apiKey = CODE_PLACEHOLDER

\* index.js 29: new GoogleMapsService(config.googleMaps.apiKey)
googleMaps == [apiKey |-> config.googleMaps.apiKey]

\* index.js 13-20: an unreadable config ends the process
LoadConfig ==
    /\ proc = "load_config"
    /\ proc' = IF configFile.readable THEN "validate_key" ELSE "exited"
    /\ UNCHANGED <<configFile, pc, request, queries, locals, handlerOutcome, result>>

\* index.js 22-26: a config without a googleMaps section makes line 23 throw a
\* TypeError at top level, which ends the process as process.exit(1) does
ValidateKey ==
    /\ proc = "validate_key"
    /\ proc' = IF ~Has(config, "googleMaps") THEN "exited"
               ELSE IF apiKeyRefused(config) THEN "exited"
               ELSE "main"
    /\ UNCHANGED <<configFile, pc, request, queries, locals, handlerOutcome, result>>

\* index.js 410-418: main() connects the server to its stdio transport; a
\* rejected connect is caught and ends the process
Connect ==
    /\ proc = "main"
    /\ \E connected \in BOOLEAN :
        proc' = IF connected THEN "serving" ELSE "exited"
    /\ UNCHANGED <<configFile, pc, request, queries, locals, handlerOutcome, result>>

----------------------------------------------------------------------------
(* The external provider: what client.directions can answer *)

\* warnings of the provider that mention a toll (warning.toLowerCase().includes('toll'))
TollWarnings == {"This route has tolls."}

\* the legs the provider reports: with or without a traffic-adjusted duration;
\* the catalogue's roads are 100 km long per unit of duration
Legs ==
    {[distance |-> [value |-> 100000 * d], duration |-> [value |-> d]] :
        d \in 0..MaxDuration}
    \cup
    {[distance |-> [value |-> 100000 * d], duration |-> [value |-> d],
      duration_in_traffic |-> [value |-> t]] :
        d \in 0..MaxDuration, t \in 0..MaxDuration}

\* the routes the provider returns; the longest ones use a toll road
ProviderRoutes ==
    {[summary |-> "I-95 N", legs |-> <<leg>>,
      warnings |-> IF leg.duration.value >= 1
                   THEN <<"This route has tolls.">> ELSE <<>>] : leg \in Legs}

\* how a directions call settles: rejected with an error (transport, quota,
\* denied key), or resolved with data.routes holding no route or one route.
\* Only a real key is served; any other key is denied.
ProviderOutcomes(key) ==
    IF key = REAL_KEY
    THEN {[rejected |-> TRUE, message |-> "OVER_QUERY_LIMIT"]}
         \cup {[rejected |-> FALSE, data |-> [routes |-> <<>>]]}
         \cup {[rejected |-> FALSE, data |-> [routes |-> <<r>>]] : r \in ProviderRoutes}
    ELSE {[rejected |-> TRUE, message |-> "REQUEST_DENIED"]}

\* a directions call that has been issued and not yet settled
Pending(params) == [params |-> params, settled |-> FALSE]

AllSettled == \A i \in 1..Len(queries) : queries[i].settled

----------------------------------------------------------------------------
(* Provider adapter: google-maps.js *)

\* how an async function completes
Returned(value) == [threw |-> FALSE, value |-> value]
Threw(message) == [threw |-> TRUE, message |-> message]

\* Array.prototype.join('|') over the avoid tokens
RECURSIVE JoinBar(_)
JoinBar(tokens) ==
    IF Len(tokens) = 1 THEN tokens[1]
    ELSE tokens[1] \o "|" \o JoinBar(Tail(tokens))

Truthy(obj, field) == Has(obj, field) /\ obj[field] = TRUE

\* google-maps.js 111-117; undefined is the empty sequence, a string is <<string>>
buildAvoidString(options) ==
    LET avoid == (IF Truthy(options, "avoidTolls") THEN <<"tolls">> ELSE <<>>)
                 \o (IF Truthy(options, "avoidHighways") THEN <<"highways">> ELSE <<>>)
                 \o (IF Truthy(options, "avoidFerries") THEN <<"ferries">> ELSE <<>>)
    IN IF Len(avoid) > 0 THEN <<JoinBar(avoid)>> ELSE <<>>

\* google-maps.js 141-152
extractTollInfo(route) ==
    LET tollWarnings == IF Has(route, "warnings")
                        THEN SelectSeq(route.warnings, LAMBDA w : w \in TollWarnings)
                        ELSE <<>>
    IN [hasTolls |-> Len(tollWarnings) > 0,
        warnings |-> tollWarnings,
        estimatedCost |-> [t |-> "null"]]

\* a variant of the reshape that reports no traffic duration as 0
formatRouteResponseZeroTraffic(route) ==
    LET leg == route.legs[1]
    IN [summary |-> route.summary,
        distance |-> leg.distance.value,
        duration |-> leg.duration.value,
        durationInTraffic |-> IF Has(leg, "duration_in_traffic")
                              THEN leg.duration_in_traffic.value ELSE 0,
        warnings |-> IF Has(route, "warnings") THEN route.warnings ELSE <<>>,
        tollInfo |-> extractTollInfo(route)]

\* google-maps.js 119-139; polyline, steps, bounds and copyrights are copied
\* through and read by nothing, and are left out
formatRouteResponse(route) ==
    LET leg == route.legs[1]
    IN [summary |-> route.summary,
        distance |-> leg.distance.value,
        duration |-> leg.duration.value,
        durationInTraffic |-> IF Has(leg, "duration_in_traffic")
                              THEN leg.duration_in_traffic.value
                              ELSE leg.duration.value,
        warnings |-> IF Has(route, "warnings") THEN route.warnings ELSE <<>>,
        tollInfo |-> extractTollInfo(route)]

\* google-maps.js 10-27: the directions parameters calculateRoute sends
calculateRouteParams(params) ==
    [origin |-> params.origin,
     destination |-> params.destination,
     key |-> googleMaps.apiKey,
     mode |-> "driving",
     traffic_model |-> IF Has(params, "trafficModel") THEN params.trafficModel
                       ELSE "best_guess",
     avoid |-> buildAvoidString(params),
     alternatives |-> IF Has(params, "alternatives") THEN params.alternatives
                      ELSE FALSE,
     units |-> "metric"]

\* google-maps.js 28-37: calculateRoute once its directions call has settled
calculateRoute(outcome) ==
    IF outcome.rejected
    THEN Threw("Google Maps API error: " \o outcome.message)
    ELSE IF Len(outcome.data.routes) = 0
    THEN Threw("Google Maps API error: No route found")
    ELSE Returned(formatRouteResponse(outcome.data.routes[1]))

----------------------------------------------------------------------------
(* Tool dispatcher: index.js 143-170 *)

NoRequest == [name |-> ""]
NoOutcome == [threw |-> FALSE]
NoResult == [pending |-> TRUE]

\* index.js 160-168: the error result of the catch block
ErrorResult(message) ==
    [content |-> <<[type |-> "text", text |-> "Error: " \o message]>>,
     isError |-> TRUE]

\* the content every handler returns: JSON.stringify(result, null, 2) as text
Envelope(resultObject) ==
    [content |-> <<[type |-> "text", text |-> resultObject]>>]

\* a variant of the dispatcher without the catch: the error of the handler
\* rejects the call
callToolWithoutCatch(outcome) ==
    IF outcome.threw THEN [rejected |-> TRUE, message |-> outcome.message]
    ELSE outcome.value

\* index.js 146-169: try { return await handler(args) } catch (error) { ... }
callTool(outcome) ==
    IF outcome.threw THEN ErrorResult(outcome.message) ELSE outcome.value

\* the tools/call handler completes: the handler's completion goes through
\* the try/catch and the call is answered
Return(outcome) ==
    /\ pc' = "returned"
    /\ handlerOutcome' = outcome
    /\ result' = callTool(outcome)

\* a tools/call request is taken up on a connected server, once the call
\* followed before it is over
Accept ==
    /\ proc = "serving"
    /\ pc = "idle"

\* the call is over: its result has been handed back and every query it
\* issued has settled; nothing of it is kept
CallOver ==
    /\ pc = "returned"
    /\ AllSettled
    /\ pc' = "idle"
    /\ request' = NoRequest
    /\ queries' = <<>>
    /\ locals' = [none |-> TRUE]
    /\ handlerOutcome' = NoOutcome
    /\ result' = NoResult
    /\ UNCHANGED <<proc, configFile>>

\* TypeError of destructuring an undefined args
DestructureError(property) ==
    "Cannot destructure property '" \o property \o "' of 'args' as it is undefined."

\* index.js 156-157: a name that is none of the four tools
UnknownTools == {"geocode"}

CallUnknownTool ==
    \E name \in UnknownTools :
        /\ Accept
        /\ request' = [name |-> name, arguments |-> [origin |-> "A", destination |-> "B"]]
        /\ queries' = <<>>
        /\ locals' = [none |-> TRUE]
        /\ Return(Threw("Unknown tool: " \o name))
        /\ UNCHANGED <<proc, configFile>>

\* the provider settles query i with an outcome.  The continuation of the
\* handler awaiting it runs in the same turn of the event loop (promise
\* reactions are microtasks), so each Settle action below carries it.
Settled(i, outcome) ==
    [queries EXCEPT ![i] =
        [params |-> queries[i].params, settled |-> TRUE, outcome |-> outcome]]

----------------------------------------------------------------------------
(* calculate_route: index.js 173-209 *)

CalculateRouteArgs ==
    {[origin |-> "A", destination |-> "B"],
     [origin |-> "A", destination |-> "B",
      options |-> [avoidTolls |-> TRUE, trafficModel |-> "pessimistic"]]}

\* index.js 174-181, up to the await; args undefined makes line 174 throw
CallCalculateRoute ==
    /\ Accept
    /\ \/ /\ request' = [name |-> "calculate_route"]
          /\ queries' = <<>>
          /\ locals' = [none |-> TRUE]
          /\ Return(Threw(DestructureError("origin")))
       \/ \E args \in CalculateRouteArgs :
            LET options == IF Has(args, "options") THEN args.options
                           ELSE [none |-> TRUE]
            IN /\ request' = [name |-> "calculate_route", arguments |-> args]
               /\ queries' = <<Pending(calculateRouteParams(
                                   options @@ [origin |-> args.origin,
                                               destination |-> args.destination]))>>
               /\ locals' = [options |-> options]
               /\ pc' = "handleCalculateRoute"
               /\ handlerOutcome' = NoOutcome
               /\ result' = NoResult
    /\ UNCHANGED <<proc, configFile>>

\* index.js 183-208, after the await
handleCalculateRoute(route, options) ==
    Envelope(
        [success |-> TRUE,
         route |-> [summary |-> route.summary,
                    distance |-> route.distance,
                    duration |-> route.duration,
                    durationInTraffic |-> route.durationInTraffic,
                    warnings |-> route.warnings,
                    tollInfo |-> route.tollInfo],
         metadata |-> [trafficModel |-> IF Has(options, "trafficModel")
                                        THEN options.trafficModel
                                        ELSE "best_guess"]])

SettleCalculateRoute ==
    /\ pc = "handleCalculateRoute"
    /\ ~queries[1].settled
    /\ \E outcome \in ProviderOutcomes(queries[1].params.key) :
        LET route == calculateRoute(outcome)
        IN /\ queries' = Settled(1, outcome)
           /\ Return(IF route.threw THEN route
                     ELSE Returned(handleCalculateRoute(route.value, locals.options)))
    /\ UNCHANGED <<proc, configFile, request, locals>>

----------------------------------------------------------------------------
(* compare_routes: index.js 211-276 and 360-369 *)

\* the option objects callers compare, all different
OptionPool ==
    <<[avoidTolls |-> TRUE],
      [avoidHighways |-> TRUE],
      [avoidTolls |-> TRUE, avoidHighways |-> TRUE],
      [trafficModel |-> "pessimistic"],
      [avoidFerries |-> TRUE],
      [trafficModel |-> "optimistic"]>>

Reverse(s) == [i \in 1..Len(s) |-> s[Len(s) + 1 - i]]

\* the compareOptions arrays: up to MaxOptions options, in either order
CompareOptionArrays ==
    {SubSeq(OptionPool, 1, n) : n \in 0..MaxOptions}
    \cup {Reverse(SubSeq(OptionPool, 1, n)) : n \in 0..MaxOptions}

CompareRoutesArgs ==
    {[origin |-> "A", destination |-> "B"]}
    \cup {[origin |-> "A", destination |-> "B", compareOptions |-> c] :
            c \in CompareOptionArrays}

\* index.js 214-233: the calculateRoute calls of the fan-out, in order of issue
routePromises(args, compareOptions) ==
    <<Pending(calculateRouteParams(
          [origin |-> args.origin, destination |-> args.destination,
           alternatives |-> TRUE]))>>
    \o [i \in 1..Len(compareOptions) |->
          Pending(calculateRouteParams(
              compareOptions[i] @@ [origin |-> args.origin,
                                    destination |-> args.destination]))]

\* index.js 212-235, up to the await of Promise.all
CallCompareRoutes ==
    /\ Accept
    /\ \/ /\ request' = [name |-> "compare_routes"]
          /\ queries' = <<>>
          /\ locals' = [none |-> TRUE]
          /\ Return(Threw(DestructureError("origin")))
       \/ \E args \in CompareRoutesArgs :
            LET compareOptions == IF Has(args, "compareOptions")
                                  THEN args.compareOptions ELSE <<>>
            IN /\ request' = [name |-> "compare_routes", arguments |-> args]
               /\ queries' = routePromises(args, compareOptions)
               /\ locals' = [compareOptions |-> compareOptions]
               /\ pc' = "handleCompareRoutes"
               /\ handlerOutcome' = NoOutcome
               /\ result' = NoResult
    /\ UNCHANGED <<proc, configFile>>

\* the completion of calculateRoute for every query of qs that has settled
Calculated(qs) ==
    [i \in 1..Len(qs) |->
        IF qs[i].settled THEN calculateRoute(qs[i].outcome) ELSE [pending |-> TRUE]]

IsRejected(p) == Has(p, "threw") /\ p.threw
IsFulfilled(p) == Has(p, "threw") /\ ~p.threw

\* a variant of the join that waits for every promise and keeps the fulfilled
\* ones, rejecting only when none is fulfilled
promiseAllKeepingFulfilled(promises) ==
    IF \E i \in 1..Len(promises) : Has(promises[i], "pending")
    THEN [pending |-> TRUE]
    ELSE IF \A i \in 1..Len(promises) : IsRejected(promises[i])
    THEN Threw(promises[1].message)
    ELSE Returned(LET kept == SelectSeq(promises, IsFulfilled)
                  IN [i \in 1..Len(kept) |-> kept[i].value])

\* a variant of the join that is fulfilled once the first promise is, with
\* the values that have arrived
promiseAllOfFirst(promises) ==
    IF IsRejected(promises[1]) THEN Threw(promises[1].message)
    ELSE IF IsFulfilled(promises[1])
    THEN Returned(LET kept == SelectSeq(promises, IsFulfilled)
                  IN [i \in 1..Len(kept) |-> kept[i].value])
    ELSE [pending |-> TRUE]

\* index.js 235: Promise.all(routePromises).  It rejects as soon as one
\* promise rejects, with that rejection, and is fulfilled with the array of
\* values, in the order of the promises, once every one is fulfilled.  It is
\* evaluated at each settlement, so at most one promise is rejected when it
\* rejects.
promiseAll(promises) ==
    IF \E i \in 1..Len(promises) : IsRejected(promises[i])
    THEN Threw(promises[CHOOSE i \in 1..Len(promises) : IsRejected(promises[i])].message)
    ELSE IF \A i \in 1..Len(promises) : IsFulfilled(promises[i])
    THEN Returned([i \in 1..Len(promises) |-> promises[i].value])
    ELSE [pending |-> TRUE]

\* a variant of the reducer that lets a later route win a tie
fasterOrEqual(best, current) ==
    IF current.durationInTraffic <= best.durationInTraffic THEN current ELSE best

\* index.js 361-363 and 250-252: the reducer of the fastest route
faster(best, current) ==
    IF current.durationInTraffic < best.durationInTraffic THEN current ELSE best

\* index.js 253-255: the reducer of the shortest route
shorter(shortest, current) ==
    IF current.distance < shortest.distance THEN current ELSE shortest

\* index.js 360-369
findBestRoute(routes) ==
    [recommended |-> Reduce(faster, routes),
     reason |-> "Fastest travel time with current traffic conditions"]

\* index.js 237-275, after the await
handleCompareRoutes(routes, compareOptions) ==
    Envelope(
        [success |-> TRUE,
         comparison |->
            [routes |-> [i \in 1..Len(routes) |->
                            [id |-> i - 1,
                             summary |-> routes[i].summary,
                             distance |-> routes[i].distance,
                             duration |-> routes[i].duration,
                             durationInTraffic |-> routes[i].durationInTraffic,
                             tollInfo |-> routes[i].tollInfo,
                             options |-> IF i = 1 THEN <<"default">>
                                         ELSE <<compareOptions[i - 1]>>]],
             recommendation |-> findBestRoute(routes),
             summary |-> [fastestRoute |-> Reduce(faster, routes),
                          shortestRoute |-> Reduce(shorter, routes)]],
         metadata |-> [routesCompared |-> Len(routes)]])

\* a query of the fan-out settles while the handler awaits Promise.all
SettleCompareRoutes ==
    /\ pc = "handleCompareRoutes"
    /\ \E i \in 1..Len(queries) :
        /\ ~queries[i].settled
        /\ \E outcome \in ProviderOutcomes(queries[i].params.key) :
            LET routes == promiseAll(Calculated(Settled(i, outcome)))
            IN /\ queries' = Settled(i, outcome)
               /\ IF Has(routes, "pending")
                  THEN UNCHANGED <<pc, handlerOutcome, result>>
                  ELSE Return(IF routes.threw THEN routes
                              ELSE Returned(handleCompareRoutes(
                                       routes.value, locals.compareOptions)))
    /\ UNCHANGED <<proc, configFile, request, locals>>

\* a query settles after the handler that issued it has completed: nothing
\* cancels it and nothing reads its outcome
SettleAbandoned ==
    /\ pc = "returned"
    /\ \E i \in 1..Len(queries) :
        /\ ~queries[i].settled
        /\ \E outcome \in ProviderOutcomes(queries[i].params.key) :
            queries' = Settled(i, outcome)
    /\ UNCHANGED <<proc, configFile, pc, request, locals, handlerOutcome, result>>

----------------------------------------------------------------------------
(* get_live_traffic: google-maps.js 40-109, index.js 278-311 and 371-379 *)

\* google-maps.js 79: the offsets, in seconds, of the supplementary queries
timeOffsets == <<1800, 3600, 7200>>

\* google-maps.js 99: the key of a sample, `+${offset/60}min`
sampleKey(offset) == "+" \o ToString(offset \div 60) \o "min"

\* google-maps.js 45-55: the directions parameters of the primary query
trafficParams(args) ==
    [origin |-> args.origin,
     destination |-> args.destination,
     key |-> googleMaps.apiKey,
     mode |-> "driving",
     departure_time |-> IF Has(args, "departureTime") THEN args.departureTime
                        ELSE "now",
     traffic_model |-> "best_guess",
     units |-> "metric"]

\* google-maps.js 84-94: the directions parameters of a supplementary query,
\* departing offset seconds from now
alternativeParams(args, offset) ==
    [origin |-> args.origin,
     destination |-> args.destination,
     key |-> googleMaps.apiKey,
     mode |-> "driving",
     departure_offset |-> offset,
     traffic_model |-> "best_guess",
     units |-> "metric"]

GetLiveTrafficArgs ==
    {[origin |-> "A", destination |-> "B"],
     [origin |-> "A", destination |-> "B", departureTime |-> "2026-01-01T08:00:00Z"]}

\* index.js 279-285 and google-maps.js 41-55, up to the await of the primary query
CallGetLiveTraffic ==
    /\ Accept
    /\ \/ /\ request' = [name |-> "get_live_traffic"]
          /\ queries' = <<>>
          /\ locals' = [none |-> TRUE]
          /\ Return(Threw(DestructureError("origin")))
       \/ \E args \in GetLiveTrafficArgs :
            /\ request' = [name |-> "get_live_traffic", arguments |-> args]
            /\ queries' = <<Pending(trafficParams(args))>>
            /\ locals' = [results |-> <<>>]
            /\ pc' = "getTrafficInfo"
            /\ handlerOutcome' = NoOutcome
            /\ result' = NoResult
    /\ UNCHANGED <<proc, configFile>>

\* google-maps.js 56-58 and 69-71: the primary query has settled.  With no
\* route in the response, route.legs throws a TypeError inside the try.
primaryFailure(outcome) ==
    IF outcome.rejected
    THEN Threw("Traffic info error: " \o outcome.message)
    ELSE IF Len(outcome.data.routes) = 0
    THEN Threw("Traffic info error: Cannot read properties of undefined (reading 'legs')")
    ELSE Returned(outcome.data.routes[1])

SettleTrafficPrimary ==
    /\ pc = "getTrafficInfo"
    /\ ~queries[1].settled
    /\ \E outcome \in ProviderOutcomes(queries[1].params.key) :
        LET route == primaryFailure(outcome)
        IN IF route.threw
           THEN /\ queries' = Settled(1, outcome)
                /\ Return(route)
                /\ UNCHANGED locals
           ELSE /\ queries' = Append(Settled(1, outcome),
                                  Pending(alternativeParams(request.arguments,
                                                            timeOffsets[1])))
                /\ pc' = "getAlternativeTimes"
                /\ UNCHANGED <<locals, handlerOutcome, result>>
    /\ UNCHANGED <<proc, configFile, request>>

\* google-maps.js 96-97: duration_in_traffic?.value || duration.value
sampleDuration(leg) ==
    IF Has(leg, "duration_in_traffic") /\ leg.duration_in_traffic.value # 0
    THEN leg.duration_in_traffic.value
    ELSE leg.duration.value

\* a variant of the loop body that lets the failure of a sample escape
alternativeTimeUncaught(results, offset, outcome) ==
    IF outcome.rejected
    THEN Threw(outcome.message)
    ELSE IF Len(outcome.data.routes) = 0
    THEN Threw("Cannot read properties of undefined (reading 'legs')")
    ELSE Returned(Append(results,
             [key |-> sampleKey(offset),
              duration |-> sampleDuration(outcome.data.routes[1].legs[1])]))

\* google-maps.js 83-105: the loop body once the query of offset has settled.
\* A rejected query, and a response without a route (a TypeError on
\* routes[0].legs), are caught and leave results as they are.
alternativeTime(results, offset, outcome) ==
    IF outcome.rejected
    THEN Returned(results)
    ELSE IF Len(outcome.data.routes) = 0
    THEN Returned(results)
    ELSE Returned(Append(results,
             [key |-> sampleKey(offset),
              duration |-> sampleDuration(outcome.data.routes[1].legs[1])]))

\* google-maps.js 63-68: the snapshot getTrafficInfo returns
trafficSnapshot(route, alternativeTimes) ==
    [duration |-> route.legs[1].duration.value,
     durationInTraffic |-> IF Has(route.legs[1], "duration_in_traffic")
                           THEN route.legs[1].duration_in_traffic.value
                           ELSE route.legs[1].duration.value,
     route |-> formatRouteResponse(route),
     alternativeTimes |-> alternativeTimes]

\* index.js 373: delay / duration in IEEE arithmetic, kept as a fraction
delayRatio(delay, duration) ==
    IF duration # 0 THEN [t |-> "num", n |-> delay, d |-> duration]
    ELSE IF delay = 0 THEN [t |-> "NaN"]
    ELSE IF delay > 0 THEN [t |-> "Infinity"]
    ELSE [t |-> "-Infinity"]

\* ratio < n/d for a threshold n/d; every comparison with NaN is false
lessThan(ratio, n, d) ==
    CASE ratio.t = "NaN" -> FALSE
      [] ratio.t = "Infinity" -> FALSE
      [] ratio.t = "-Infinity" -> TRUE
      [] OTHER -> IF ratio.d > 0 THEN ratio.n * d < n * ratio.d
                  ELSE ratio.n * d > n * ratio.d

\* a variant of the classifier whose thresholds belong to the lower band
getTrafficConditionInclusive(trafficData) ==
    LET delay == trafficData.durationInTraffic - trafficData.duration
        ratio == delayRatio(delay, trafficData.duration)
        atMost(n, d) ==
            \/ lessThan(ratio, n, d)
            \/ trafficData.duration > 0 /\ delay * d = n * trafficData.duration
    IN IF atMost(1, 10) THEN "light"
       ELSE IF atMost(3, 10) THEN "moderate"
       ELSE IF atMost(5, 10) THEN "heavy"
       ELSE "severe"

\* index.js 371-379
getTrafficCondition(trafficData) ==
    LET delay == trafficData.durationInTraffic - trafficData.duration
        ratio == delayRatio(delay, trafficData.duration)
    IN IF lessThan(ratio, 1, 10) THEN "light"
       ELSE IF lessThan(ratio, 3, 10) THEN "moderate"
       ELSE IF lessThan(ratio, 5, 10) THEN "heavy"
       ELSE "severe"

\* index.js 287-310, after the await
handleGetLiveTraffic(trafficData, args) ==
    Envelope(
        [success |-> TRUE,
         traffic |-> [currentDuration |-> trafficData.duration,
                      durationInTraffic |-> trafficData.durationInTraffic,
                      trafficDelay |-> trafficData.durationInTraffic
                                       - trafficData.duration,
                      trafficCondition |-> getTrafficCondition(trafficData),
                      alternativeTimes |-> trafficData.alternativeTimes,
                      route |-> trafficData.route],
         metadata |-> [departureTime |-> IF Has(args, "departureTime")
                                         THEN args.departureTime ELSE "now"]])

\* google-maps.js 81-108 and 61-71: the supplementary query of the current
\* offset settles; the loop goes on to the next offset, or getTrafficInfo
\* returns its snapshot and the handler its result
SettleAlternativeTime ==
    /\ pc = "getAlternativeTimes"
    /\ LET k == Len(queries) - 1
       IN /\ ~queries[k + 1].settled
          /\ \E outcome \in ProviderOutcomes(queries[k + 1].params.key) :
              LET results == alternativeTime(locals.results, timeOffsets[k], outcome)
              IN IF results.threw
                 THEN /\ queries' = Settled(k + 1, outcome)
                      /\ Return(Threw("Traffic info error: " \o results.message))
                      /\ UNCHANGED locals
                 ELSE IF k < Len(timeOffsets)
                 THEN /\ queries' = Append(Settled(k + 1, outcome),
                                        Pending(alternativeParams(request.arguments,
                                                                  timeOffsets[k + 1])))
                      /\ locals' = [results |-> results.value]
                      /\ UNCHANGED <<pc, handlerOutcome, result>>
                 ELSE /\ queries' = Settled(k + 1, outcome)
                      /\ locals' = [results |-> results.value]
                      /\ Return(Returned(handleGetLiveTraffic(
                             trafficSnapshot(queries[1].outcome.data.routes[1],
                                             results.value),
                             request.arguments)))
    /\ UNCHANGED <<proc, configFile, request>>

----------------------------------------------------------------------------
(* estimate_costs: index.js 313-357 and 381-407 *)

(* JavaScript numbers of the cost arithmetic.  A finite number is the exact  *)
(* fraction n/d in lowest terms, in cents for money; binary floating point   *)
(* is not modelled, its error is far below half a cent for these magnitudes. *)
RECURSIVE GCD(_, _)
GCD(a, b) == IF b = 0 THEN a ELSE GCD(b, a % b)

Num(n, d) == LET g == GCD(n, d) IN [t |-> "num", n |-> n \div g, d |-> d \div g]
Null == [t |-> "null"]
Undefined == [t |-> "undefined"]
NaN == [t |-> "NaN"]

\* ToNumber: null is 0, undefined is NaN
ToNumber(v) ==
    CASE v.t = "null" -> Num(0, 1)
      [] v.t = "undefined" -> NaN
      [] OTHER -> v

\* a * (n/d) and a + b on numbers, after coercion
Times(a, n, d) ==
    LET x == ToNumber(a)
    IN IF x.t = "NaN" THEN NaN
       ELSE LET g == GCD(x.n, d) h == GCD(n, x.d)
            IN Num((x.n \div g) * (n \div h), (x.d \div h) * (d \div g))

Plus(a, b) ==
    LET x == ToNumber(a) y == ToNumber(b)
    IN IF x.t = "NaN" \/ y.t = "NaN" THEN NaN
       ELSE Num(x.n * y.d + y.n * x.d, x.d * y.d)

\* index.js 392-394: Math.round(x * 100) / 100 of an amount x, in cents:
\* the nearest cent, a half rounding up
roundCents(a) ==
    LET x == ToNumber(a)
    IN IF x.t = "NaN" THEN NaN
       ELSE Num((2 * x.n + x.d) \div (2 * x.d), 1)

\* index.js 382-383: vehicleOptions.x || config.costs.x
orDefault(vehicleOptions, field, default) ==
    IF Has(vehicleOptions, field) /\ vehicleOptions[field] # 0
    THEN vehicleOptions[field] ELSE default

\* index.js 389: the toll cost before rounding.  An object is truthy, so a
\* route that has a tollInfo takes its estimatedCost, whatever that is.
tollCostOf(route) ==
    IF Has(route, "tollInfo")
    THEN IF Has(route.tollInfo, "estimatedCost") THEN route.tollInfo.estimatedCost
         ELSE Undefined
    ELSE Num(route.distance * config.costs.tollEstimatePerKm, 1000)

\* index.js 381-407; efficiency in tenths of a litre per 100 km, price in
\* cents per litre, amounts in cents.  The breakdown and the restated inputs
\* are formatted copies of these numbers and are left out.
calculateTripCosts(route, vehicleOptions) ==
    LET fuelEfficiency == orDefault(vehicleOptions, "fuelEfficiency",
                                    config.costs.vehicleFuelEfficiency)
        fuelPrice == orDefault(vehicleOptions, "fuelPrice",
                               config.costs.fuelPricePerLiter)
        distanceKm == Num(route.distance, 1000)
        fuelNeeded == Times(Times(distanceKm, 1, 100), fuelEfficiency, 10)
        fuelCost == Times(fuelNeeded, fuelPrice, 1)
        tollCost == tollCostOf(route)
    IN [fuelCost |-> roundCents(fuelCost),
        tollCost |-> roundCents(tollCost),
        totalCost |-> roundCents(Plus(fuelCost, tollCost)),
        assumptions |-> [tollEstimate |-> "Based on route analysis"]]

\* index.js 327-356
handleEstimateCosts(routeData, vehicleOptions) ==
    LET costs_ == calculateTripCosts(routeData, vehicleOptions)
    IN Envelope(
        [success |-> TRUE,
         costs |-> [fuel |-> costs_.fuelCost,
                    tolls |-> costs_.tollCost,
                    total |-> costs_.totalCost,
                    assumptions |-> costs_.assumptions],
         route |-> [distance |-> routeData.distance,
                    duration |-> routeData.duration,
                    tollInfo |-> IF Has(routeData, "tollInfo")
                                 THEN <<routeData.tollInfo>> ELSE <<>>],
         metadata |-> [currency |-> "USD"]])

\* the routes a caller passes: one that calculate_route returned, one with an
\* estimate of the tolls (7.50) added by the caller, two without tollInfo
CallerRoutes ==
    {[distance |-> 100000, duration |-> 1,
      tollInfo |-> [hasTolls |-> FALSE, warnings |-> <<>>, estimatedCost |-> Null]],
     [distance |-> 100000, duration |-> 1,
      tollInfo |-> [hasTolls |-> TRUE, warnings |-> <<"This route has tolls.">>,
                    estimatedCost |-> Num(750, 1)]],
     [distance |-> 100000, duration |-> 1],
     [distance |-> 12345, duration |-> 1]}

VehicleOptionsSet ==
    {[fuelEfficiency |-> 65, fuelPrice |-> 200], [fuelEfficiency |-> 0, fuelPrice |-> 0]}

\* the arguments of estimate_costs: with a route, or with none, some, or all
\* of origin and destination
EstimateCostsArgs ==
    {[route |-> r] : r \in CallerRoutes}
    \cup {[route |-> r, vehicleOptions |-> v] : r \in CallerRoutes, v \in VehicleOptionsSet}
    \cup {[route |-> r, origin |-> "A", destination |-> "B"] : r \in CallerRoutes}
    \cup {[vehicleOptions |-> v] : v \in VehicleOptionsSet}
    \cup {[origin |-> "A"], [destination |-> "B"],
          [origin |-> "", destination |-> "B"],
          [origin |-> "A", destination |-> ""],
          [origin |-> "A", destination |-> "B"]}
    \cup {[origin |-> "A", destination |-> "B", vehicleOptions |-> v] :
            v \in VehicleOptionsSet}

\* a string argument that is present and not empty
TruthyString(args, field) == Has(args, field) /\ args[field] # ""

\* a variant of the condition that forgets the destination
needsRouteForOrigin(args) ==
    ~Has(args, "route") /\ TruthyString(args, "origin")

\* index.js 319: !route && origin && destination
needsRoute(args) ==
    ~Has(args, "route") /\ TruthyString(args, "origin")
    /\ TruthyString(args, "destination")

vehicleOptionsOf(args) ==
    IF Has(args, "vehicleOptions") THEN args.vehicleOptions ELSE [none |-> TRUE]

\* index.js 314-327, up to the await of calculateRoute when there is one
CallEstimateCosts ==
    /\ Accept
    /\ \/ /\ request' = [name |-> "estimate_costs"]
          /\ queries' = <<>>
          /\ locals' = [none |-> TRUE]
          /\ Return(Threw(DestructureError("route")))
       \/ \E args \in EstimateCostsArgs :
            /\ request' = [name |-> "estimate_costs", arguments |-> args]
            /\ locals' = [vehicleOptions |-> vehicleOptionsOf(args)]
            /\ IF needsRoute(args)
               THEN /\ queries' = <<Pending(calculateRouteParams(
                                       [origin |-> IF Has(args, "origin")
                                                   THEN args.origin ELSE "",
                                        destination |-> IF Has(args, "destination")
                                                        THEN args.destination ELSE ""]))>>
                    /\ pc' = "handleEstimateCosts"
                    /\ handlerOutcome' = NoOutcome
                    /\ result' = NoResult
               ELSE /\ queries' = <<>>
                    /\ IF ~Has(args, "route")
                       THEN Return(Threw("No route data available for cost estimation"))
                       ELSE Return(Returned(handleEstimateCosts(
                                args.route, vehicleOptionsOf(args))))
    /\ UNCHANGED <<proc, configFile>>

\* index.js 320-356: calculateRoute has completed
SettleEstimateCosts ==
    /\ pc = "handleEstimateCosts"
    /\ ~queries[1].settled
    /\ \E outcome \in ProviderOutcomes(queries[1].params.key) :
        LET routeData == calculateRoute(outcome)
        IN /\ queries' = Settled(1, outcome)
           /\ Return(IF routeData.threw THEN routeData
                     ELSE Returned(handleEstimateCosts(
                              routeData.value, locals.vehicleOptions)))
    /\ UNCHANGED <<proc, configFile, request, locals>>

----------------------------------------------------------------------------
Init ==
    /\ proc = "load_config"
    /\ configFile \in ConfigFiles
    /\ pc = "idle"
    /\ request = NoRequest
    /\ queries = <<>>
    /\ locals = [none |-> TRUE]
    /\ handlerOutcome = NoOutcome
    /\ result = NoResult

Next ==
    \/ LoadConfig
    \/ ValidateKey
    \/ Connect
    \/ CallOver
    \/ CallUnknownTool
    \/ CallCalculateRoute
    \/ SettleCalculateRoute
    \/ CallCompareRoutes
    \/ SettleCompareRoutes
    \/ SettleAbandoned
    \/ CallGetLiveTraffic
    \/ SettleTrafficPrimary
    \/ SettleAlternativeTime
    \/ CallEstimateCosts
    \/ SettleEstimateCosts

Spec == Init /\ [][Next]_vars

----------------------------------------------------------------------------
(* The traffic report on its own: getTrafficInfo has resolved with a        *)
(* snapshot of some leg, and the handler builds its result from it.         *)

\* the legs the snapshot is taken of: durations in seconds, with or without
\* a traffic-adjusted duration
ClassifierLegs ==
    {[distance |-> [value |-> 1000 * d], duration |-> [value |-> d]] :
        d \in 0..MaxLegDuration}
    \cup
    {[distance |-> [value |-> 1000 * d], duration |-> [value |-> d],
      duration_in_traffic |-> [value |-> t]] :
        d \in 0..MaxLegDuration, t \in 0..MaxLegTraffic}

ClassifierRoutes ==
    {[summary |-> "I-95 N", legs |-> <<leg>>, warnings |-> <<>>] :
        leg \in ClassifierLegs}

\* index.js 279-285: get_live_traffic is being served and the await of
\* getTrafficInfo is about to resume with trafficData
ClassifierInit ==
    /\ proc = "serving"
    /\ configFile = [readable |-> TRUE,
                     json |-> [googleMaps |-> [apiKey |-> REAL_KEY],
                               costs |-> costs]]
    /\ pc = "getTrafficCondition"
    /\ \E args \in GetLiveTrafficArgs :
          request = [name |-> "get_live_traffic", arguments |-> args]
    /\ queries = <<>>
    /\ \E route \in ClassifierRoutes :
          locals = [trafficData |-> trafficSnapshot(route, <<>>)]
    /\ handlerOutcome = NoOutcome
    /\ result = NoResult

\* index.js 287-310 and 146-147: the handler builds the report, classifier
\* included, and the call is answered with it
ReportTraffic ==
    /\ pc = "getTrafficCondition"
    /\ Return(Returned(handleGetLiveTraffic(locals.trafficData, request.arguments)))
    /\ UNCHANGED <<proc, configFile, request, queries, locals>>

ClassifierNext == ReportTraffic

ClassifierSpec == ClassifierInit /\ [][ClassifierNext]_vars

----------------------------------------------------------------------------
(* Properties *)

\* the call being followed is a call of tool name that has been answered
Answered(name) == pc = "returned" /\ request.name = name

\* the result is the error result of the catch block
IsErrorResult == Has(result, "isError") /\ result.isError = TRUE

\* the result is a success envelope
IsSuccess ==
    /\ Has(result, "content")
    /\ ~Has(result, "isError")
    /\ result.content[1].text.success = TRUE

\* the object a success envelope carries
Payload == result.content[1].text

\* query i has settled with a route
GaveRoute(i) ==
    /\ queries[i].settled
    /\ ~queries[i].outcome.rejected
    /\ Len(queries[i].outcome.data.routes) > 0

\* query i has settled with a rejection
Rejected(i) == queries[i].settled /\ queries[i].outcome.rejected

\* query i has settled without a route: rejected, or resolved with no route
GaveNoRoute(i) == queries[i].settled /\ ~GaveRoute(i)

\* the leg of the route query i settled with
LegOf(i) == queries[i].outcome.data.routes[1].legs[1]

(* C1: whatever the tool name and the arguments, an error raised while the  *)
(* selected handler runs is caught and becomes the error result             *)
(* {content: [{type: "text", text: "Error: <message>"}], isError: true};    *)
(* the caller never receives an exception, an unknown tool is answered with *)
(* its name in the message, and a call ends in a success envelope or in an  *)
(* error result, which it has only once it has returned.                    *)
C1_ErrorsBecomeErrorResults ==
    /\ pc # "returned" => result = NoResult
    /\ pc = "returned" =>
        /\ Has(result, "content")
        /\ handlerOutcome.threw =>
            /\ IsErrorResult
            /\ result.content = <<[type |-> "text",
                                   text |-> "Error: " \o handlerOutcome.message]>>
        /\ ~handlerOutcome.threw => IsSuccess
        /\ request.name \in UnknownTools =>
            /\ IsErrorResult
            /\ result.content[1].text = "Error: Unknown tool: " \o request.name

\* a provider failure inside calculate_route has been answered with an error result
C1_Witness ==
    /\ Answered("calculate_route")
    /\ Len(queries) = 1
    /\ Rejected(1)
    /\ IsErrorResult
    /\ result.content[1].text = "Error: Google Maps API error: OVER_QUERY_LIMIT"

\* the offsets whose supplementary query settled as Ok(_) says, as sample keys
RECURSIVE KeysWhere(_, _)
KeysWhere(Ok(_), k) ==
    IF k > Len(timeOffsets) THEN <<>>
    ELSE (IF Ok(k + 1) THEN <<sampleKey(timeOffsets[k])>> ELSE <<>>)
         \o KeysWhere(Ok, k + 1)

\* the keys of alternativeTimes in the answer
AnsweredKeys ==
    [i \in 1..Len(Payload.traffic.alternativeTimes) |->
        Payload.traffic.alternativeTimes[i].key]

Resolved(i) == queries[i].settled /\ ~queries[i].outcome.rejected

(* C2 as stated: get_live_traffic succeeds whenever its primary query       *)
(* succeeds, fails only if the primary query fails, and alternativeTimes    *)
(* holds an entry for exactly the offsets whose supplementary query         *)
(* succeeded.  A query succeeds when the provider answers it.               *)
C2_AsStated ==
    (Answered("get_live_traffic") /\ Has(request, "arguments")) =>
        /\ Resolved(1) => IsSuccess
        /\ IsErrorResult => Rejected(1)
        /\ IsSuccess => AnsweredKeys = KeysWhere(Resolved, 1)

(* C2 amended: get_live_traffic is best-effort over its three supplementary *)
(* queries: the call succeeds whenever the primary query returns a route,   *)
(* it fails only if the primary query fails or returns no route, and        *)
(* alternativeTimes holds an entry for exactly the offsets whose            *)
(* supplementary query returned a route (a sample that failed or found no   *)
(* route is omitted, never turned into a failure of the call).              *)
C2_BestEffortSamples ==
    (Answered("get_live_traffic") /\ Has(request, "arguments")) =>
        /\ GaveRoute(1) =>
            /\ IsSuccess
            /\ Len(queries) = 1 + Len(timeOffsets)
            /\ AnsweredKeys = KeysWhere(GaveRoute, 1)
        /\ ~GaveRoute(1) => IsErrorResult /\ Len(queries) = 1

\* the call succeeded with the +30min sample rejected, the +60min sample
\* answered and the +120min sample without a route
C2_Witness ==
    /\ Answered("get_live_traffic")
    /\ IsSuccess
    /\ Len(queries) = 4
    /\ Rejected(2)
    /\ GaveRoute(3)
    /\ Resolved(4) /\ GaveNoRoute(4)
    /\ AnsweredKeys = <<"+60min">>

(* C3: compare_routes is all-or-nothing: as soon as one of its N+1 provider *)
(* queries fails, the handler has failed and the call is answered with an   *)
(* error result; a success envelope is built only from N+1 queries that     *)
(* all gave a route, and holds N+1 routes.                                  *)
C3_AllOrNothing ==
    (request.name = "compare_routes" /\ Has(request, "arguments")) =>
        /\ (\E i \in 1..Len(queries) : GaveNoRoute(i)) =>
            pc = "returned" /\ handlerOutcome.threw /\ IsErrorResult
        /\ (pc = "returned" /\ IsSuccess) =>
            /\ \A i \in 1..Len(queries) : GaveRoute(i)
            /\ Len(Payload.comparison.routes) = Len(locals.compareOptions) + 1

\* a comparison of three routes was answered with an error result: the third
\* query was rejected and the other two gave a route
C3_Witness ==
    /\ Answered("compare_routes")
    /\ Len(queries) = 3
    /\ GaveRoute(1) /\ GaveRoute(2) /\ Rejected(3)
    /\ IsErrorResult

\* the first index of routes with the least durationInTraffic
FirstFastest(routes) ==
    CHOOSE k \in 1..Len(routes) :
        /\ \A j \in 1..Len(routes) :
            routes[k].durationInTraffic <= routes[j].durationInTraffic
        /\ \A j \in 1..(k - 1) :
            routes[j].durationInTraffic > routes[k].durationInTraffic

(* C4: when every query of compare_routes gives a route, exactly N+1        *)
(* queries were issued, the default one (alternatives on, nothing avoided)  *)
(* first and then one per option in the order of compareOptions; the answer *)
(* holds N+1 entries with ids 0..N, entry i being the route of query i, the *)
(* first labelled default and the others with their option; and            *)
(* recommendation.recommended is the first route of least                   *)
(* durationInTraffic.                                                       *)
C4_ComparisonOfAllRoutes ==
    (Answered("compare_routes") /\ Has(request, "arguments") /\ IsSuccess) =>
        LET compareOptions == IF Has(request.arguments, "compareOptions")
                              THEN request.arguments.compareOptions ELSE <<>>
            N == Len(compareOptions)
            entries == Payload.comparison.routes
            routes == [i \in 1..Len(queries) |->
                          formatRouteResponse(queries[i].outcome.data.routes[1])]
        IN /\ Len(queries) = N + 1
           /\ queries[1].params.alternatives = TRUE
           /\ queries[1].params.avoid = <<>>
           /\ \A i \in 1..N :
                /\ queries[i + 1].params.avoid = buildAvoidString(compareOptions[i])
                /\ queries[i + 1].params.traffic_model =
                        (IF Has(compareOptions[i], "trafficModel")
                         THEN compareOptions[i].trafficModel ELSE "best_guess")
                /\ queries[i + 1].params.alternatives = FALSE
           /\ Len(entries) = N + 1
           /\ \A i \in 1..(N + 1) :
                /\ entries[i].id = i - 1
                /\ entries[i].duration = routes[i].duration
                /\ entries[i].durationInTraffic = routes[i].durationInTraffic
                /\ entries[i].distance = routes[i].distance
                /\ entries[i].options = (IF i = 1 THEN <<"default">>
                                         ELSE <<compareOptions[i - 1]>>)
           /\ Payload.comparison.recommendation.recommended
                = routes[FirstFastest(routes)]
           /\ Payload.metadata.routesCompared = N + 1

\* three routes were compared; the second and the third tie for the least
\* durationInTraffic and differ, and the second is recommended
C4_Witness ==
    /\ Answered("compare_routes")
    /\ IsSuccess
    /\ Len(queries) = 3
    /\ LET entries == Payload.comparison.routes
       IN /\ entries[1].durationInTraffic > entries[2].durationInTraffic
          /\ entries[2].durationInTraffic = entries[3].durationInTraffic
          /\ entries[2].duration # entries[3].duration
          /\ Payload.comparison.recommendation.recommended.duration
                = entries[2].duration

\* the route estimate_costs costed: the caller's, or the one calculateRoute made
CostedRoute ==
    IF Has(request.arguments, "route") THEN request.arguments.route
    ELSE formatRouteResponse(queries[1].outcome.data.routes[1])

\* the route carries an estimate of its tolls
HasEstimate(route) ==
    /\ Has(route, "tollInfo")
    /\ Has(route.tollInfo, "estimatedCost")
    /\ route.tollInfo.estimatedCost.t = "num"

(* C5: estimate_costs reports as tolls the route's tollInfo.estimatedCost   *)
(* when the route carries one, and otherwise the distance in km times the   *)
(* configured flat toll estimate per km, and as total the rounded sum of    *)
(* the fuel cost and that toll cost; so a route of 100,000 m normalised by  *)
(* the provider adapter, with the configured 8.0 l/100 km, 1.50 per litre   *)
(* and 0.05 per km, costs 5.00 in tolls and 17.00 in total.                 *)
C5_TollsFromEstimateOrFlatRate ==
    (Answered("estimate_costs") /\ Has(request, "arguments") /\ IsSuccess) =>
        LET route == CostedRoute
            vehicleOptions == vehicleOptionsOf(request.arguments)
            efficiency == orDefault(vehicleOptions, "fuelEfficiency",
                                    vehicleFuelEfficiency)
            price == orDefault(vehicleOptions, "fuelPrice", fuelPricePerLiter)
            fuel == Times(Num(route.distance, 1000), efficiency * price, 1000)
            tolls == IF HasEstimate(route) THEN route.tollInfo.estimatedCost
                     ELSE Num(route.distance * tollEstimatePerKm, 1000)
        IN /\ Payload.costs.tolls = roundCents(tolls)
           /\ Payload.costs.total = roundCents(Plus(fuel, tolls))
           /\ (/\ route.distance = 100000
               /\ ~HasEstimate(route)
               /\ ~Has(request.arguments, "vehicleOptions")) =>
                    /\ Payload.costs.fuel = Num(1200, 1)
                    /\ Payload.costs.tolls = Num(500, 1)
                    /\ Payload.costs.total = Num(1700, 1)

\* origin and destination are both given
CompletePair(args) ==
    /\ Has(args, "origin") /\ args.origin # ""
    /\ Has(args, "destination") /\ args.destination # ""

(* C6: estimate_costs called with no route and without a complete           *)
(* origin/destination pair is answered with the error result of the         *)
(* insufficient-data error, and asks the provider nothing; called with no   *)
(* route and with both origin and destination it issues one calculateRoute  *)
(* query, computes nothing until that query has settled, and then costs the *)
(* route the query gave, or answers with the error of the query.  Called    *)
(* without an arguments object it is answered with an error result too.     *)
C6_EstimateNeedsARoute ==
    /\ (request.name = "estimate_costs" /\ ~Has(request, "arguments")) =>
        pc = "returned" /\ queries = <<>> /\ IsErrorResult
    /\ (request.name = "estimate_costs" /\ Has(request, "arguments")
        /\ ~Has(request.arguments, "route")) =>
        /\ ~CompletePair(request.arguments) =>
            /\ pc = "returned"
            /\ queries = <<>>
            /\ IsErrorResult
            /\ result.content[1].text
                 = "Error: No route data available for cost estimation"
        /\ CompletePair(request.arguments) =>
            /\ Len(queries) = 1
            /\ queries[1].params.origin = request.arguments.origin
            /\ queries[1].params.destination = request.arguments.destination
            /\ ~queries[1].settled => pc = "handleEstimateCosts" /\ result = NoResult
            /\ GaveRoute(1) =>
                /\ pc = "returned"
                /\ IsSuccess
                /\ Payload.route.distance = LegOf(1).distance.value
                /\ Payload.costs.fuel =
                     calculateTripCosts(formatRouteResponse(
                         queries[1].outcome.data.routes[1]),
                         vehicleOptionsOf(request.arguments)).fuelCost
            /\ GaveNoRoute(1) => pc = "returned" /\ IsErrorResult

\* estimate_costs with an origin and no destination was answered with the
\* insufficient-data error
C6_Witness ==
    /\ Answered("estimate_costs")
    /\ Has(request, "arguments")
    /\ ~Has(request.arguments, "route")
    /\ Has(request.arguments, "origin") /\ request.arguments.origin = "A"
    /\ ~Has(request.arguments, "destination")
    /\ IsErrorResult

\* the key the process was configured with is one a provider can accept:
\* present, not empty, and none of the placeholders
UsableKey ==
    /\ configFile.readable
    /\ Has(config, "googleMaps")
    /\ Has(config.googleMaps, "apiKey")
    /\ config.googleMaps.apiKey \notin {"", CODE_PLACEHOLDER, README_PLACEHOLDER}

(* C7: start-up is fatal on a bad configuration: with an unreadable config, *)
(* or an API key that is absent or left at its placeholder value, the       *)
(* process ends before main() connects the server, so the server never      *)
(* connects to its transport and never takes up a tool call with such a key.*)
C7_NoServiceWithoutAKey ==
    (proc \in {"main", "serving"} \/ pc # "idle") => UsableKey

(* C8: every route formatRouteResponse produces and every snapshot of       *)
(* getTrafficInfo has a durationInTraffic that is a number >= 0, and that   *)
(* equals duration when the provider's leg carries no traffic-adjusted      *)
(* duration.                                                                *)
C8_DurationInTrafficDefined ==
    /\ (Answered("calculate_route") /\ IsSuccess) =>
        /\ Payload.route.durationInTraffic \in Nat
        /\ ~Has(LegOf(1), "duration_in_traffic") =>
            Payload.route.durationInTraffic = Payload.route.duration
        /\ Has(LegOf(1), "duration_in_traffic") =>
            Payload.route.durationInTraffic = LegOf(1).duration_in_traffic.value
    /\ (Answered("get_live_traffic") /\ IsSuccess) =>
        /\ Payload.traffic.durationInTraffic \in Nat
        /\ Payload.traffic.route.durationInTraffic \in Nat
        /\ ~Has(LegOf(1), "duration_in_traffic") =>
            /\ Payload.traffic.durationInTraffic = Payload.traffic.currentDuration
            /\ Payload.traffic.route.durationInTraffic = Payload.traffic.route.duration
    /\ (Answered("compare_routes") /\ IsSuccess) =>
        \A i \in 1..Len(queries) :
            /\ Payload.comparison.routes[i].durationInTraffic \in Nat
            /\ ~Has(LegOf(i), "duration_in_traffic") =>
                Payload.comparison.routes[i].durationInTraffic
                    = Payload.comparison.routes[i].duration

\* calculate_route answered with a route whose leg has a duration of 1 and no
\* traffic-adjusted duration: its durationInTraffic is 1
C8_Witness ==
    /\ Answered("calculate_route")
    /\ IsSuccess
    /\ ~Has(LegOf(1), "duration_in_traffic")
    /\ LegOf(1).duration.value = 1
    /\ Payload.route.durationInTraffic = 1

(* C9 as stated: once compare_routes has issued its fan-out, the handler    *)
(* never returns its result, success or error, while one of the issued      *)
(* queries is outstanding.                                                  *)
C9_AsStated ==
    Answered("compare_routes") => AllSettled

(* C9 amended: once compare_routes has issued its fan-out, the handler      *)
(* never returns a success result while one of the issued queries is        *)
(* outstanding; it returns while a query is outstanding only with an error  *)
(* result, once a branch has failed.                                        *)
C9_ReturnsEarlyOnlyOnFailure ==
    (Answered("compare_routes") /\ ~AllSettled) =>
        /\ IsErrorResult
        /\ \E i \in 1..Len(queries) : GaveNoRoute(i)

\* the comparison was answered with an error result while two of its three
\* queries were outstanding
C9_Witness ==
    /\ Answered("compare_routes")
    /\ Len(queries) = 3
    /\ IsErrorResult
    /\ GaveNoRoute(2)
    /\ ~queries[1].settled /\ ~queries[3].settled

(* C10: the classifier is guarded for a duration of 0: get_live_traffic     *)
(* answers a route of duration 0 with the condition light, or rejects it;   *)
(* it never reports moderate, heavy or severe for it.                       *)
C10_ZeroDurationIsLight ==
    (Answered("get_live_traffic") /\ IsSuccess
        /\ Payload.traffic.currentDuration = 0) =>
            Payload.traffic.trafficCondition = "light"

----------------------------------------------------------------------------
\* how severe a label is
Severity(label) ==
    CASE label = "light" -> 0
      [] label = "moderate" -> 1
      [] label = "heavy" -> 2
      [] label = "severe" -> 3

\* the label the thresholds give a delay of delay seconds on a duration of
\* duration > 0 seconds, in exact arithmetic: ratio = delay / duration
LabelOfRatio(delay, duration) ==
    IF 10 * delay < duration THEN "light"
    ELSE IF 10 * delay < 3 * duration THEN "moderate"
    ELSE IF 10 * delay < 5 * duration THEN "heavy"
    ELSE "severe"

\* the snapshots of positive duration the classifier is applied to
PositiveSnapshots ==
    {[duration |-> d, durationInTraffic |-> t] :
        d \in 1..MaxLegDuration, t \in 0..MaxLegTraffic}

(* C11: for every duration > 0 and durationInTraffic >= 0 the label of the  *)
(* traffic classifier is fixed by ratio = (durationInTraffic - duration) /  *)
(* duration alone: light when ratio < 0.10, moderate when 0.10 <= ratio <   *)
(* 0.30, heavy when 0.30 <= ratio < 0.50, severe otherwise; a snapshot of   *)
(* the same ratio has the same label and one of a larger ratio a label that *)
(* is not less severe; and get_live_traffic reports trafficDelay =          *)
(* durationInTraffic - duration together with that label.                   *)
C11_LabelByRatio ==
    (Answered("get_live_traffic") /\ Has(locals, "trafficData")
        /\ locals.trafficData.duration > 0) =>
        LET duration == locals.trafficData.duration
            delay == locals.trafficData.durationInTraffic - duration
        IN /\ locals.trafficData.durationInTraffic >= 0
           /\ IsSuccess
           /\ Payload.traffic.currentDuration = duration
           /\ Payload.traffic.durationInTraffic = locals.trafficData.durationInTraffic
           /\ Payload.traffic.trafficDelay = delay
           /\ Payload.traffic.trafficCondition = LabelOfRatio(delay, duration)
           /\ \A other \in PositiveSnapshots :
                LET otherDelay == other.durationInTraffic - other.duration
                    otherLabel == getTrafficCondition(other)
                IN /\ otherDelay * duration = delay * other.duration =>
                        otherLabel = Payload.traffic.trafficCondition
                   /\ otherDelay * duration >= delay * other.duration =>
                        Severity(otherLabel)
                            >= Severity(Payload.traffic.trafficCondition)

\* a leg of 10 s that takes 13 s in traffic, a ratio of exactly 0.30, has
\* been reported with a delay of 3 s and as heavy
C11_Witness ==
    /\ Answered("get_live_traffic")
    /\ Has(locals, "trafficData")
    /\ locals.trafficData.duration = 10
    /\ locals.trafficData.durationInTraffic = 13
    /\ IsSuccess
    /\ Payload.traffic.trafficDelay = 3
    /\ Payload.traffic.trafficCondition = "heavy"

====
